---- MODULE Spec2Model ----
(***************************************************************************)
(* Credential state machine of Beds24AuthManager (beds24_auth_manager.py). *)
(*                                                                         *)
(* The clock and every timestamp count seconds; the clock advances a day   *)
(* at a time.  A stored record is a Python dict; the model keeps the keys  *)
(* the code reads.  A key that is missing from the dict has the token      *)
(* "none" or an expiration of kind "absent".                               *)
(***************************************************************************)
EXTENDS Integers, Sequences, FiniteSets, TLC

\* ------------------------------------------------------------------ bounds
MaxDays == 1            \* the clock stops advancing after this many days
MaxExpiresIn == 1       \* largest expiresIn the remote sends, in days
MaxOverrideDays == 0    \* largest expiration_days override a caller passes

\* ------------------------------------------------------- program constants
DEFAULT_EXPIRES_IN == 86400     \* token_data.get("expiresIn", 86400)
DEFAULT_EXPIRATION_DAYS == 30   \* expiration_days=30
SECONDS_PER_DAY == 86400        \* timedelta(days=1) in seconds
MaxTime == MaxDays * SECONDS_PER_DAY

SETUP_URL == "authentication/setup"
TOKEN_URL == "authentication/token"
DETAILS_URL == "authentication/details"

\* ------------------------------------------------------------ record values
NoExpiration == [kind |-> "absent", at |-> 0]
BadExpiration == [kind |-> "bad", at |-> 0]
Iso(t) == [kind |-> "iso", at |-> t]

\* {} : what _load_file returns for a missing, empty or corrupt file
EmptyDict == [present |-> FALSE, token |-> "none", created |-> 0,
              expiration |-> NoExpiration]

Dict(tok, c, e) == [present |-> TRUE, token |-> tok, created |-> c,
                    expiration |-> e]

\* file contents: no file, or a stored dict
NoFile == [state |-> "missing", data |-> EmptyDict]
FileOf(d) == [state |-> "json", data |-> d]

\* ----------------------------------------------------------- pure helpers
\* _load_file
load_file(f) == IF f.state = "json" THEN f.data ELSE EmptyDict

\* _save_file: "ok" writes the dict and returns True; "fail" is the IOError
\* of an open() that is refused, the file is untouched and False is returned
SaveOutcomes == {"ok", "fail"}

save_file(f, data, outcome) == IF outcome = "ok" THEN FileOf(data) ELSE f

\* truthiness of a dict
Truthy(d) == d.present

\* _has_not_expired with the comparison of line 55 written as <=
has_not_expired_Inclusive(data, t) ==
    IF ~Truthy(data) \/ data.expiration.kind = "absent" THEN FALSE
    ELSE IF data.expiration.kind = "bad" THEN FALSE
    ELSE t <= data.expiration.at

\* _has_not_expired with the handler of lines 56-58 returning True
has_not_expired_ParseErrorValid(data, t) ==
    IF ~Truthy(data) \/ data.expiration.kind = "absent" THEN FALSE
    ELSE IF data.expiration.kind = "bad" THEN TRUE
    ELSE t < data.expiration.at

\* _has_not_expired, evaluated when the clock reads t
has_not_expired(data, t) ==
    IF ~Truthy(data) \/ data.expiration.kind = "absent" THEN FALSE
    ELSE IF data.expiration.kind = "bad" THEN FALSE
    ELSE t < data.expiration.at

\* ------------------------------------------------------- remote responses
\* What requests.get produces: "neterr" raises before a response exists,
\* "http401"/"http500" are error statuses, "badjson" is a 2xx body that does
\* not parse, "list" a 2xx body that is JSON but not an object, "object" a
\* JSON object whose keys are listed ("none"/"absent" = key missing,
\* "nan" = expiresIn present but not a number).
ErrorKinds == {"neterr", "http401", "http500", "badjson", "list"}
NewAccessTokens == {"t1"}
NewRefreshTokens == {"r1"}

ExpiresIn ==
    {[kind |-> "absent", n |-> 0], [kind |-> "nan", n |-> 0]}
    \cup {[kind |-> "num", n |-> k * SECONDS_PER_DAY] : k \in 0..MaxExpiresIn}

NoPayload(k) == [kind |-> k, token |-> "none", refreshToken |-> "none",
                 expiresIn |-> [kind |-> "absent", n |-> 0]]

SetupResponses ==
    {NoPayload(k) : k \in ErrorKinds}
    \cup {[kind |-> "object", token |-> a, refreshToken |-> r, expiresIn |-> e] :
             a \in NewAccessTokens \cup {"none"},
             r \in NewRefreshTokens \cup {"none"},
             e \in ExpiresIn}

RefreshResponses ==
    {NoPayload(k) : k \in ErrorKinds}
    \cup {[kind |-> "object", token |-> a, refreshToken |-> "none", expiresIn |-> e] :
             a \in NewAccessTokens \cup {"none"}, e \in ExpiresIn}

\* "null" is a 200 body that parses to a falsy value (null, [], {}, 0)
DetailsResponses ==
    {[kind |-> k, validToken |-> "absent"] :
         k \in {"neterr", "http500", "badjson", "list", "null"}}
    \cup {[kind |-> "object", validToken |-> v] : v \in {"true", "false", "absent"}}

\* token_data.get("expiresIn", default)
expires_in(resp) ==
    IF resp.expiresIn.kind = "absent" THEN DEFAULT_EXPIRES_IN ELSE resp.expiresIn.n

\* _get_token_details: the parsed body of a 200 response, else None
get_token_details(resp) ==
    IF resp.kind \in {"list", "null", "object"} THEN resp
    ELSE [kind |-> "None", validToken |-> "absent"]

\* validate_token: "raised" is the AttributeError of calling .get on a
\* truthy value that is not a dict
validate_token(resp) ==
    LET details == get_token_details(resp) IN
    CASE details.kind \in {"None", "null"} -> "false"
      [] details.kind = "list" -> "raised"
      [] OTHER -> IF details.validToken = "true" THEN "true" ELSE "false"

\* What a handler did besides returning: net lists the requests it sent,
\* token is the access token it took from the remote's answer to build
\* auth_data ("none" if it built none), valid is what validate_token said
\* inside the handler ("na" if it was not called), saves lists what the
\* _save_file calls did.
Outcome(ret, net, token, valid, saves) ==
    [ret |-> ret, net |-> net, token |-> token, valid |-> valid, saves |-> saves]

\* setup_with_invite_code with line 91 adding the default lifetime whatever
\* expiresIn the response carries
setup_with_invite_code_IgnoresExpiresIn(invite_code, expiration_days, fauth, frefresh, finvite, t, resp, sv1, sv2, rm) ==
    LET current_utc == t
        auth_data == Dict(resp.token, current_utc,
                          Iso(current_utc + DEFAULT_EXPIRES_IN))
        refresh_data == Dict(resp.refreshToken, current_utc,
                             Iso(current_utc + expiration_days * SECONDS_PER_DAY))
        fauth1 == save_file(fauth, auth_data, sv1)
        frefresh1 == save_file(frefresh, refresh_data, sv2)
        result(ret, net, saves, fa, fr, fi) ==
            [out |-> Outcome(ret, net, IF saves = << >> THEN "none" ELSE resp.token,
                             "na", saves),
             file_auth |-> fa, file_refresh |-> fr, file_invite |-> fi]
    IN
    IF invite_code = "" THEN
        result("false", << >>, << >>, fauth, frefresh, finvite)
    ELSE IF resp.kind # "object" \/ resp.expiresIn.kind = "nan"
            \/ resp.token = "none" THEN
        result("false", <<SETUP_URL>>, << >>, fauth, frefresh, finvite)
    ELSE IF resp.refreshToken = "none" THEN
        result("false", <<SETUP_URL>>, <<sv1>>, fauth1, frefresh, finvite)
    ELSE IF finvite.state # "missing" /\ rm = "fail" THEN
        result("false", <<SETUP_URL>>, <<sv1, sv2>>, fauth1, frefresh1, finvite)
    ELSE
        result("true", <<SETUP_URL>>, <<sv1, sv2>>, fauth1, frefresh1, NoFile)

\* setup_with_invite_code that refuses to run again once the invite record
\* has been removed from storage
setup_with_invite_code_OnlyOnce(invite_code, expiration_days, fauth, frefresh, finvite, t, resp, sv1, sv2, rm) ==
    LET current_utc == t
        auth_data == Dict(resp.token, current_utc,
                          Iso(current_utc + expires_in(resp)))
        refresh_data == Dict(resp.refreshToken, current_utc,
                             Iso(current_utc + expiration_days * SECONDS_PER_DAY))
        fauth1 == save_file(fauth, auth_data, sv1)
        frefresh1 == save_file(frefresh, refresh_data, sv2)
        result(ret, net, saves, fa, fr, fi) ==
            [out |-> Outcome(ret, net, IF saves = << >> THEN "none" ELSE resp.token,
                             "na", saves),
             file_auth |-> fa, file_refresh |-> fr, file_invite |-> fi]
    IN
    IF invite_code = "" \/ finvite.state = "missing" THEN
        result("false", << >>, << >>, fauth, frefresh, finvite)
    ELSE IF resp.kind # "object" \/ resp.expiresIn.kind = "nan"
            \/ resp.token = "none" THEN
        result("false", <<SETUP_URL>>, << >>, fauth, frefresh, finvite)
    ELSE IF resp.refreshToken = "none" THEN
        result("false", <<SETUP_URL>>, <<sv1>>, fauth1, frefresh, finvite)
    ELSE IF finvite.state # "missing" /\ rm = "fail" THEN
        result("false", <<SETUP_URL>>, <<sv1, sv2>>, fauth1, frefresh1, finvite)
    ELSE
        result("true", <<SETUP_URL>>, <<sv1, sv2>>, fauth1, frefresh1, NoFile)

\* setup_with_invite_code.  t is the clock, resp the remote's answer,
\* sv1/sv2 the outcomes of the two _save_file calls, rm the outcome of
\* os.remove.  The in-memory records are neither read nor written.
setup_with_invite_code(invite_code, expiration_days, fauth, frefresh, finvite, t, resp, sv1, sv2, rm) ==
    LET current_utc == t
        auth_data == Dict(resp.token, current_utc,
                          Iso(current_utc + expires_in(resp)))
        refresh_data == Dict(resp.refreshToken, current_utc,
                             Iso(current_utc + expiration_days * SECONDS_PER_DAY))
        fauth1 == save_file(fauth, auth_data, sv1)
        frefresh1 == save_file(frefresh, refresh_data, sv2)
        result(ret, net, saves, fa, fr, fi) ==
            [out |-> Outcome(ret, net, IF saves = << >> THEN "none" ELSE resp.token,
                             "na", saves),
             file_auth |-> fa, file_refresh |-> fr, file_invite |-> fi]
    IN
    IF invite_code = "" THEN
        result("false", << >>, << >>, fauth, frefresh, finvite)
    ELSE IF resp.kind # "object" \/ resp.expiresIn.kind = "nan"
            \/ resp.token = "none" THEN
        result("false", <<SETUP_URL>>, << >>, fauth, frefresh, finvite)
    ELSE IF resp.refreshToken = "none" THEN
        result("false", <<SETUP_URL>>, <<sv1>>, fauth1, frefresh, finvite)
    ELSE IF finvite.state # "missing" /\ rm = "fail" THEN
        result("false", <<SETUP_URL>>, <<sv1, sv2>>, fauth1, frefresh1, finvite)
    ELSE
        result("true", <<SETUP_URL>>, <<sv1, sv2>>, fauth1, frefresh1, NoFile)

\* refresh_auth_token without the assignment of line 158
refresh_auth_token_NoAdopt(rtd, atd, fauth, t, resp, sv, det) ==
    LET unchanged(net) ==
            [out |-> Outcome("false", net, "none", "na", << >>),
             auth_token_data |-> atd, file_auth |-> fauth]
        current_utc == t
        auth_data == Dict(resp.token, current_utc,
                          Iso(current_utc + expires_in(resp)))
        valid == validate_token(det)
    IN
    IF ~Truthy(rtd) \/ ~has_not_expired(rtd, t) THEN unchanged(<< >>)
    ELSE IF rtd.token = "none" THEN unchanged(<< >>)
    ELSE IF resp.kind # "object" THEN unchanged(<<TOKEN_URL>>)
    ELSE IF resp.token = "none" THEN unchanged(<<TOKEN_URL>>)
    ELSE IF resp.expiresIn.kind = "nan" THEN unchanged(<<TOKEN_URL>>)
    ELSE [out |-> Outcome(IF valid = "true" THEN "true" ELSE "false",
                          <<TOKEN_URL, DETAILS_URL>>, resp.token, valid, <<sv>>),
          auth_token_data |-> atd,
          file_auth |-> save_file(fauth, auth_data, sv)]

\* refresh_auth_token without the check of lines 128-129
refresh_auth_token_NoTokenCheck(rtd, atd, fauth, t, resp, sv, det) ==
    LET unchanged(net) ==
            [out |-> Outcome("false", net, "none", "na", << >>),
             auth_token_data |-> atd, file_auth |-> fauth]
        current_utc == t
        auth_data == Dict(resp.token, current_utc,
                          Iso(current_utc + expires_in(resp)))
        valid == validate_token(det)
    IN
    IF ~Truthy(rtd) \/ ~has_not_expired(rtd, t) THEN unchanged(<< >>)
    ELSE IF resp.kind # "object" THEN unchanged(<<TOKEN_URL>>)
    ELSE IF resp.token = "none" THEN unchanged(<<TOKEN_URL>>)
    ELSE IF resp.expiresIn.kind = "nan" THEN unchanged(<<TOKEN_URL>>)
    ELSE [out |-> Outcome(IF valid = "true" THEN "true" ELSE "false",
                          <<TOKEN_URL, DETAILS_URL>>, resp.token, valid, <<sv>>),
          auth_token_data |-> auth_data,
          file_auth |-> save_file(fauth, auth_data, sv)]

\* refresh_auth_token that puts the former AccessRecord back, in memory and
\* in storage, when the new token fails validation
refresh_auth_token_Rollback(rtd, atd, fauth, t, resp, sv, det) ==
    LET unchanged(net) ==
            [out |-> Outcome("false", net, "none", "na", << >>),
             auth_token_data |-> atd, file_auth |-> fauth]
        current_utc == t
        auth_data == Dict(resp.token, current_utc,
                          Iso(current_utc + expires_in(resp)))
        valid == validate_token(det)
    IN
    IF ~Truthy(rtd) \/ ~has_not_expired(rtd, t) THEN unchanged(<< >>)
    ELSE IF rtd.token = "none" THEN unchanged(<< >>)
    ELSE IF resp.kind # "object" THEN unchanged(<<TOKEN_URL>>)
    ELSE IF resp.token = "none" THEN unchanged(<<TOKEN_URL>>)
    ELSE IF resp.expiresIn.kind = "nan" THEN unchanged(<<TOKEN_URL>>)
    ELSE [out |-> Outcome(IF valid = "true" THEN "true" ELSE "false",
                          <<TOKEN_URL, DETAILS_URL>>, resp.token, valid, <<sv>>),
          auth_token_data |-> IF valid = "true" THEN auth_data ELSE atd,
          file_auth |-> IF valid = "true" THEN save_file(fauth, auth_data, sv)
                        ELSE fauth]

\* refresh_auth_token.  det is the remote's answer to the details request
\* that validate_token sends.
refresh_auth_token(rtd, atd, fauth, t, resp, sv, det) ==
    LET unchanged(net) ==
            [out |-> Outcome("false", net, "none", "na", << >>),
             auth_token_data |-> atd, file_auth |-> fauth]
        current_utc == t
        auth_data == Dict(resp.token, current_utc,
                          Iso(current_utc + expires_in(resp)))
        valid == validate_token(det)
    IN
    IF ~Truthy(rtd) \/ ~has_not_expired(rtd, t) THEN unchanged(<< >>)
    ELSE IF rtd.token = "none" THEN unchanged(<< >>)
    ELSE IF resp.kind # "object" THEN unchanged(<<TOKEN_URL>>)
    ELSE IF resp.token = "none" THEN unchanged(<<TOKEN_URL>>)
    ELSE IF resp.expiresIn.kind = "nan" THEN unchanged(<<TOKEN_URL>>)
    ELSE [out |-> Outcome(IF valid = "true" THEN "true" ELSE "false",
                          <<TOKEN_URL, DETAILS_URL>>, resp.token, valid, <<sv>>),
          auth_token_data |-> auth_data,
          file_auth |-> save_file(fauth, auth_data, sv)]

\* self.auth_token_data.get("access_token")
access_token(atd) == IF atd.token = "none" THEN "None" ELSE atd.token

\* get_valid_token with the test of line 181 left out: a refresh is tried
\* whenever the RefreshRecord allows it
get_valid_token_NoCache(rtd, atd, fauth, t, resp, sv, det) ==
    LET r == refresh_auth_token(rtd, atd, fauth, t, resp, sv, det)
        none == [out |-> Outcome("None", << >>, "none", "na", << >>),
                 auth_token_data |-> atd, file_auth |-> fauth]
    IN
    IF Truthy(rtd) /\ has_not_expired(rtd, t) THEN
        [r EXCEPT !.out.ret = IF r.out.ret = "true"
                              THEN access_token(r.auth_token_data)
                              ELSE "None"]
    ELSE IF Truthy(atd) /\ has_not_expired(atd, t) THEN
        [none EXCEPT !.out.ret = access_token(atd)]
    ELSE none

\* get_valid_token that sends the refresh request again when the first
\* one got no usable answer
get_valid_token_Retry(rtd, atd, fauth, t, resp, sv, det) ==
    LET r == refresh_auth_token(rtd, atd, fauth, t, resp, sv, det)
        none == [out |-> Outcome("None", << >>, "none", "na", << >>),
                 auth_token_data |-> atd, file_auth |-> fauth]
    IN
    IF Truthy(atd) /\ has_not_expired(atd, t) THEN
        [none EXCEPT !.out.ret = access_token(atd)]
    ELSE IF Truthy(rtd) /\ has_not_expired(rtd, t) THEN
        [r EXCEPT !.out.ret = IF r.out.ret = "true"
                              THEN access_token(r.auth_token_data)
                              ELSE "None",
                  !.out.net = IF r.out.net = <<TOKEN_URL>>
                              THEN <<TOKEN_URL, TOKEN_URL>> ELSE r.out.net]
    ELSE none

\* get_valid_token that validates the cached token with the remote before
\* returning it
get_valid_token_RevalidatesCached(rtd, atd, fauth, t, resp, sv, det) ==
    LET r == refresh_auth_token(rtd, atd, fauth, t, resp, sv, det)
        none == [out |-> Outcome("None", << >>, "none", "na", << >>),
                 auth_token_data |-> atd, file_auth |-> fauth]
    IN
    IF Truthy(atd) /\ has_not_expired(atd, t) THEN
        [none EXCEPT !.out.ret = IF validate_token(det) = "true"
                                 THEN access_token(atd) ELSE "None",
                     !.out.net = <<DETAILS_URL>>,
                     !.out.valid = validate_token(det)]
    ELSE IF Truthy(rtd) /\ has_not_expired(rtd, t) THEN
        [r EXCEPT !.out.ret = IF r.out.ret = "true"
                              THEN access_token(r.auth_token_data)
                              ELSE "None"]
    ELSE none

\* get_valid_token: ret is the token returned, "None" when absent
get_valid_token(rtd, atd, fauth, t, resp, sv, det) ==
    LET r == refresh_auth_token(rtd, atd, fauth, t, resp, sv, det)
        none == [out |-> Outcome("None", << >>, "none", "na", << >>),
                 auth_token_data |-> atd, file_auth |-> fauth]
    IN
    IF Truthy(atd) /\ has_not_expired(atd, t) THEN
        [none EXCEPT !.out.ret = access_token(atd)]
    ELSE IF Truthy(rtd) /\ has_not_expired(rtd, t) THEN
        [r EXCEPT !.out.ret = IF r.out.ret = "true"
                              THEN access_token(r.auth_token_data)
                              ELSE "None"]
    ELSE none

\* check_token_status with 'expired' computed as `not _has_not_expired(d)`,
\* without the leading `d and`
StatusOf_ExpiredWithoutExists(data, t) ==
    [exists |-> Truthy(data),
     valid |-> IF ~Truthy(data) THEN "empty"
               ELSE IF has_not_expired(data, t) THEN "true" ELSE "false",
     expired |-> IF ~has_not_expired(data, t) THEN "true" ELSE "false"]

\* check_token_status: Python's `d and x` yields d itself when d is the
\* empty dict, so 'valid' and 'expired' of an absent record are {}, which
\* is reported here as "empty"
StatusOf(data, t) ==
    [exists |-> Truthy(data),
     valid |-> IF ~Truthy(data) THEN "empty"
               ELSE IF has_not_expired(data, t) THEN "true" ELSE "false",
     expired |-> IF ~Truthy(data) THEN "empty"
                 ELSE IF ~has_not_expired(data, t) THEN "true" ELSE "false"]

check_token_status(atd, rtd, icd, t) ==
    [auth_token |-> StatusOf(atd, t),
     refresh_token |-> StatusOf(rtd, t),
     invite_code |-> StatusOf(icd, t)]

\* ------------------------------------------------------------------- state
VARIABLES
    now,                 \* datetime.now(timezone.utc), in days
    invite_code_data,    \* self.invite_code_data
    refresh_token_data,  \* self.refresh_token_data
    auth_token_data,     \* self.auth_token_data
    file_invite,         \* contents of INVITE_CODE_FILE
    file_refresh,        \* contents of REFRESH_TOKEN_FILE
    file_auth,           \* contents of AUTH_TOKEN_FILE
    last,                \* the last call: the operation and what it did
    threads              \* the get_valid_token calls running in threads

vars == <<now, invite_code_data, refresh_token_data, auth_token_data,
          file_invite, file_refresh, file_auth, last, threads>>

memory == <<invite_code_data, refresh_token_data, auth_token_data>>
files == <<file_invite, file_refresh, file_auth>>

\* the last call: the operation and what it did.  Calls are synchronous and
\* one at a time: the next one starts once the caller has taken the result
\* of this one (last = Idle).
Call(op, out) == [op |-> op, ret |-> out.ret, net |-> out.net,
                  token |-> out.token, valid |-> out.valid, saves |-> out.saves]
Idle == Call("idle", Outcome("None", << >>, "none", "na", << >>))

\* A get_valid_token call running in a thread: pc is the line it executes
\* next, auth_data the local variable of refresh_auth_token (line 152), out
\* what the call has done so far.  Two threads share one manager; where
\* calls are made one at a time, threads is empty.
Threads == {"A", "B"}
NoAuthData == EmptyDict
ThreadAt(pc, auth_data, out) == [pc |-> pc, auth_data |-> auth_data, out |-> out]
Entered ==
    ThreadAt("l181", NoAuthData, Outcome("None", << >>, "none", "na", << >>))

\* ----------------------------------------------------- stored files at start
\* a stored expiration of MaxTime is in the future until the clock gets there
InitAuthFiles ==
    {NoFile}
    \cup {FileOf(Dict("t0", 0, e)) :
             e \in {NoExpiration, BadExpiration, Iso(MaxTime)}}
InitRefreshFiles ==
    {NoFile} \cup {FileOf(Dict(tok, 0, Iso(MaxTime))) : tok \in {"r0", "none"}}
InitInviteFiles ==
    {NoFile, FileOf(Dict("inv", 0, Iso(MaxTime)))}

\* __init__: the three records are loaded from the files
Init ==
    /\ now = 0
    /\ file_invite \in InitInviteFiles
    /\ file_refresh \in InitRefreshFiles
    /\ file_auth \in InitAuthFiles
    /\ invite_code_data = load_file(file_invite)
    /\ refresh_token_data = load_file(file_refresh)
    /\ auth_token_data = load_file(file_auth)
    /\ last = Idle
    /\ threads = << >>

\* a new manager is constructed over the same files
Construct ==
    /\ invite_code_data' = load_file(file_invite)
    /\ refresh_token_data' = load_file(file_refresh)
    /\ auth_token_data' = load_file(file_auth)
    /\ last' = Idle
    /\ UNCHANGED <<threads, now, files>>

\* the caller takes the result of the call
Return ==
    /\ last # Idle
    /\ last' = Idle
    /\ UNCHANGED <<threads, now, memory, files>>

\* time passes between calls
Tick ==
    /\ now < MaxTime
    /\ now' = now + SECONDS_PER_DAY
    /\ last' = Idle
    /\ UNCHANGED <<threads, memory, files>>

\* r is what the handler does; it is bound once for the whole step
SetupWithInviteCode(invite_code, expiration_days, resp, sv1, sv2, rm) ==
    /\ last = Idle
    /\ \E r \in {setup_with_invite_code(invite_code, expiration_days, file_auth,
                                        file_refresh, file_invite, now, resp,
                                        sv1, sv2, rm)} :
          /\ file_auth' = r.file_auth
          /\ file_refresh' = r.file_refresh
          /\ file_invite' = r.file_invite
          /\ last' = Call("setup_with_invite_code", r.out)
    /\ UNCHANGED <<threads, now, memory>>

\* refresh_auth_token that drops the RefreshRecord, in memory and in
\* storage, when the remote rejects it with 401
RefreshAuthToken_DropsRejectedRefreshRecord(resp, sv, det) ==
    /\ last = Idle
    /\ \E r \in {refresh_auth_token(refresh_token_data, auth_token_data,
                                    file_auth, now, resp, sv, det)} :
          /\ auth_token_data' = r.auth_token_data
          /\ file_auth' = r.file_auth
          /\ last' = Call("refresh_auth_token", r.out)
          /\ \E rejected \in {r.out.net = <<TOKEN_URL>> /\ resp.kind = "http401"} :
                /\ refresh_token_data' = IF rejected THEN EmptyDict
                                         ELSE refresh_token_data
                /\ file_refresh' = IF rejected THEN NoFile ELSE file_refresh
    /\ UNCHANGED <<threads, now, invite_code_data, file_invite>>

RefreshAuthToken(resp, sv, det) ==
    /\ last = Idle
    /\ \E r \in {refresh_auth_token(refresh_token_data, auth_token_data,
                                    file_auth, now, resp, sv, det)} :
          /\ auth_token_data' = r.auth_token_data
          /\ file_auth' = r.file_auth
          /\ last' = Call("refresh_auth_token", r.out)
    /\ UNCHANGED <<threads, now, invite_code_data, refresh_token_data,
                   file_invite, file_refresh>>

GetValidToken(resp, sv, det) ==
    /\ last = Idle
    /\ \E r \in {get_valid_token(refresh_token_data, auth_token_data,
                                 file_auth, now, resp, sv, det)} :
          /\ auth_token_data' = r.auth_token_data
          /\ file_auth' = r.file_auth
          /\ last' = Call("get_valid_token", r.out)
    /\ UNCHANGED <<threads, now, invite_code_data, refresh_token_data,
                   file_invite, file_refresh>>

ValidateToken(det) ==
    /\ last = Idle
    /\ last' = Call("validate_token",
                     Outcome(validate_token(det), <<DETAILS_URL>>, "none",
                             validate_token(det), << >>))
    /\ UNCHANGED <<threads, now, memory, files>>

\* the value returned is check_token_status of the current records
CheckTokenStatus ==
    /\ last = Idle
    /\ last' = Call("check_token_status",
                     Outcome("status", << >>, "none", "na", << >>))
    /\ UNCHANGED <<threads, now, memory, files>>

\* ------------------------------------------------------------ environment
\* The outcome of a call that the handler never reaches is not an input:
\* it is fixed to a default instead of being enumerated.
NoDetails == [kind |-> "neterr", validToken |-> "absent"]

\* the refresh response carries what lines 143-149 need
RefreshUsable(resp) ==
    resp.kind = "object" /\ resp.token # "none" /\ resp.expiresIn.kind # "nan"

\* The details answer acts on a refresh only through what validate_token
\* makes of it at line 161: one answer is taken for each of its three
\* results.  validate_token itself is called with every answer.
DetailsOfRefresh ==
    {NoDetails, [kind |-> "object", validToken |-> "true"],
     [kind |-> "list", validToken |-> "absent"]}

RefreshInputs ==
    {i \in [resp : RefreshResponses, sv : SaveOutcomes, det : DetailsOfRefresh] :
        ~RefreshUsable(i.resp) => (i.sv = "ok" /\ i.det = NoDetails)}

\* the inputs of a call that sends no request
NoRefreshInput == [resp |-> NoPayload("neterr"), sv |-> "ok", det |-> NoDetails]

\* whether refresh_auth_token, or get_valid_token, called now sends a
\* request; that does not depend on what the remote would answer
RefreshSends ==
    refresh_auth_token(refresh_token_data, auth_token_data, file_auth, now,
                       NoRefreshInput.resp, NoRefreshInput.sv,
                       NoRefreshInput.det).out.net # << >>
GetSends ==
    get_valid_token(refresh_token_data, auth_token_data, file_auth, now,
                    NoRefreshInput.resp, NoRefreshInput.sv,
                    NoRefreshInput.det).out.net # << >>

\* the setup response lets line 100 be reached
SetupWritesAuth(resp) ==
    resp.kind = "object" /\ resp.token # "none" /\ resp.expiresIn.kind # "nan"

InviteCodes == {"", "inv"}
ExpirationDays == {DEFAULT_EXPIRATION_DAYS} \cup 1..MaxOverrideDays
RemoveOutcomes == {"ok", "fail"}

SetupInputs ==
    {i \in [invite_code : InviteCodes, expiration_days : ExpirationDays,
            resp : SetupResponses, sv1 : SaveOutcomes, sv2 : SaveOutcomes,
            rm : RemoveOutcomes] :
        /\ i.invite_code = "" => i.resp = NoPayload("neterr")
        /\ ~SetupWritesAuth(i.resp) =>
              (i.sv1 = "ok" /\ i.expiration_days = DEFAULT_EXPIRATION_DAYS)
        /\ (~SetupWritesAuth(i.resp) \/ i.resp.refreshToken = "none") =>
              (i.sv2 = "ok" /\ i.rm = "ok")}

\* os.remove is called only if the invite file exists (line 111)
SetupStep ==
    \E i \in SetupInputs :
        /\ file_invite.state = "missing" => i.rm = "ok"
        /\ SetupWithInviteCode(i.invite_code, i.expiration_days, i.resp,
                               i.sv1, i.sv2, i.rm)

\* the remote and the disk act on a call only if it sends a request
RefreshStep ==
    IF RefreshSends
    THEN \E i \in RefreshInputs : RefreshAuthToken(i.resp, i.sv, i.det)
    ELSE RefreshAuthToken(NoRefreshInput.resp, NoRefreshInput.sv, NoRefreshInput.det)

GetStep ==
    IF GetSends
    THEN \E i \in RefreshInputs : GetValidToken(i.resp, i.sv, i.det)
    ELSE GetValidToken(NoRefreshInput.resp, NoRefreshInput.sv, NoRefreshInput.det)

ValidateStep == \E det \in DetailsResponses : ValidateToken(det)

Next ==
    \/ Tick
    \/ Construct
    \/ Return
    \/ SetupStep
    \/ RefreshStep
    \/ GetStep
    \/ ValidateStep
    \/ CheckTokenStatus

Spec == Init /\ [][Next]_vars

\* ------------------------------------------------------------- setups only
\* setup_with_invite_code reads no in-memory record and, of the stored
\* files, only whether the invite file exists; what it does is decided by
\* its inputs, the clock and the storage.  Here setups are the only calls
\* made, over the same stored files at start.
NextSetup ==
    \/ Tick
    \/ Return
    \/ SetupStep

SpecSetup == Init /\ [][NextSetup]_vars

\* ------------------------------------------------------ concurrent callers
\* Two threads run get_valid_token on one manager.  The interpreter switches
\* threads between any two statements and while a thread waits for the
\* remote or for the disk, so a call is a sequence of steps, one for each
\* line that reads or writes the manager's attributes or a file or talks to
\* the remote.  The lines in between work on local variables only.  A write
\* to AUTH_TOKEN_FILE is taken as one step.  Neither the clock nor the
\* RefreshRecord changes while the two calls run.
Move(th, pc, auth_data, out) ==
    threads' = [threads EXCEPT ![th] = ThreadAt(pc, auth_data, out)]

\* the call returns ret
Done(th, ret, out) ==
    Move(th, "done", threads[th].auth_data, [out EXCEPT !.ret = ret])

\* line 181: the test of the in-memory AccessRecord
Line181(th) ==
    /\ threads[th].pc = "l181"
    /\ IF Truthy(auth_token_data) /\ has_not_expired(auth_token_data, now)
       THEN Move(th, "l183", NoAuthData, threads[th].out)
       ELSE Move(th, "l186", NoAuthData, threads[th].out)
    /\ UNCHANGED <<now, memory, files, last>>

\* line 183: the in-memory AccessRecord is read again for its token
Line183(th) ==
    /\ threads[th].pc = "l183"
    /\ Done(th, access_token(auth_token_data), threads[th].out)
    /\ UNCHANGED <<now, memory, files, last>>

\* the test of line 186 with a lock around lines 186-189: the thread waits
\* while the other one is refreshing
Line186_Locked(th) ==
    /\ threads[th].pc = "l186"
    /\ \A other \in Threads \ {th} :
          threads[other].pc \notin {"l138", "l157", "l158", "l161", "l189"}
    /\ IF /\ Truthy(refresh_token_data)
          /\ has_not_expired(refresh_token_data, now)
          /\ refresh_token_data.token # "none"
       THEN Move(th, "l138", NoAuthData, threads[th].out)
       ELSE Done(th, "None", threads[th].out)
    /\ UNCHANGED <<now, memory, files, last>>

\* line 186, then lines 123-129 of refresh_auth_token: the tests of the
\* in-memory RefreshRecord
Line186(th) ==
    /\ threads[th].pc = "l186"
    /\ IF /\ Truthy(refresh_token_data)
          /\ has_not_expired(refresh_token_data, now)
          /\ refresh_token_data.token # "none"
       THEN Move(th, "l138", NoAuthData, threads[th].out)
       ELSE Done(th, "None", threads[th].out)
    /\ UNCHANGED <<now, memory, files, last>>

\* lines 138-156: the refresh request and, if it is answered with a token,
\* the new record in the local variable auth_data
Line138(th, resp) ==
    LET out == [threads[th].out EXCEPT !.net = Append(@, TOKEN_URL)]
        current_utc == now
        auth_data == Dict(resp.token, current_utc,
                          Iso(current_utc + expires_in(resp)))
    IN
    /\ threads[th].pc = "l138"
    /\ IF RefreshUsable(resp)
       THEN Move(th, "l157", auth_data, [out EXCEPT !.token = resp.token])
       ELSE Done(th, "None", out)
    /\ UNCHANGED <<now, memory, files, last>>

\* line 157: auth_data is written to AUTH_TOKEN_FILE
Line157(th, sv) ==
    /\ threads[th].pc = "l157"
    /\ file_auth' = save_file(file_auth, threads[th].auth_data, sv)
    /\ Move(th, "l158", threads[th].auth_data,
            [threads[th].out EXCEPT !.saves = Append(@, sv)])
    /\ UNCHANGED <<now, memory, file_invite, file_refresh, last>>

\* line 158: auth_data becomes the in-memory AccessRecord
Line158(th) ==
    /\ threads[th].pc = "l158"
    /\ auth_token_data' = threads[th].auth_data
    /\ Move(th, "l161", threads[th].auth_data, threads[th].out)
    /\ UNCHANGED <<now, invite_code_data, refresh_token_data, files, last>>

\* lines 161-166: the details request for the new token
Line161(th, det) ==
    LET out == [threads[th].out EXCEPT !.net = Append(@, DETAILS_URL),
                                       !.valid = validate_token(det)]
    IN
    /\ threads[th].pc = "l161"
    /\ IF validate_token(det) = "true"
       THEN Move(th, "l189", threads[th].auth_data, out)
       ELSE Done(th, "None", out)
    /\ UNCHANGED <<now, memory, files, last>>

\* line 189: the in-memory AccessRecord is read for the token to return
Line189(th) ==
    /\ threads[th].pc = "l189"
    /\ Done(th, access_token(auth_token_data), threads[th].out)
    /\ UNCHANGED <<now, memory, files, last>>

\* one step of the call running in thread th
ThreadStep(th) ==
    \/ Line181(th)
    \/ Line183(th)
    \/ Line186(th)
    \/ \E resp \in RefreshResponses : Line138(th, resp)
    \/ \E sv \in SaveOutcomes : Line157(th, sv)
    \/ Line158(th)
    \/ \E det \in DetailsResponses : Line161(th, det)
    \/ Line189(th)

\* both threads have entered get_valid_token on a manager just constructed
InitConcurrent ==
    /\ now = 0
    /\ file_invite \in InitInviteFiles
    /\ file_refresh \in InitRefreshFiles
    /\ file_auth \in InitAuthFiles
    /\ invite_code_data = load_file(file_invite)
    /\ refresh_token_data = load_file(file_refresh)
    /\ auth_token_data = load_file(file_auth)
    /\ last = Idle
    /\ threads = [th \in Threads |-> Entered]

NextConcurrent == \E th \in Threads : ThreadStep(th)

SpecConcurrent == InitConcurrent /\ [][NextConcurrent]_vars

\* ------------------------------------------------------------ properties
\* "valid" as the specification defines it: present and now < expiration
IsValidAt(record, t) ==
    record.present /\ record.expiration.kind = "iso" /\ t < record.expiration.at

IsGet(l) == l.op = "get_valid_token"
IsRefresh(l) == l.op = "refresh_auth_token"
IsSetup(l) == l.op = "setup_with_invite_code"
IsValidate(l) == l.op = "validate_token"

\* C1: whenever the in-memory AccessRecord is valid, get_valid_token returns
\* that record's access token and sends no request; so does a second call
\* made while the record is still valid
C1_CachedTokenNoNetwork ==
    [][(IsValidAt(auth_token_data, now) /\ IsGet(last'))
          => /\ last'.ret = auth_token_data.token
             /\ last'.net = << >>
             /\ UNCHANGED <<memory, files>>]_vars

\* C1 witness: a call has returned the token of the valid in-memory record
\* without any request
C1_Witness ==
    /\ IsGet(last) /\ last.net = << >>
    /\ IsValidAt(auth_token_data, now)
    /\ last.ret = auth_token_data.token

C4_Original ==
    [][(~IsValidAt(refresh_token_data, now) /\ IsGet(last'))
          => (last'.net = << >> /\ last'.ret = "None")]_vars

\* C4 (amended): with an expired or absent in-memory RefreshRecord,
\* get_valid_token sends no request; it returns None unless the in-memory
\* AccessRecord is still valid, and then it returns that record's token
C4_NoRefreshWithoutValidRefreshRecord ==
    [][(~IsValidAt(refresh_token_data, now) /\ IsGet(last'))
          => /\ last'.net = << >>
             /\ last'.ret = IF IsValidAt(auth_token_data, now)
                            THEN auth_token_data.token ELSE "None"]_vars

\* C4 witness: a call has returned None without a request, neither record
\* being valid
C4_Witness ==
    /\ IsGet(last) /\ last.net = << >> /\ last.ret = "None"
    /\ ~IsValidAt(refresh_token_data, now)
    /\ ~IsValidAt(auth_token_data, now)

\* C5: refresh_auth_token called while the in-memory RefreshRecord is absent,
\* expired or without a refresh token returns False, sends no request and
\* changes no record, in memory or in storage
C5_RefreshPreconditionFailsFast ==
    [][(/\ IsRefresh(last')
        /\ \/ ~IsValidAt(refresh_token_data, now)
           \/ refresh_token_data.token = "none")
          => /\ last'.ret = "false"
             /\ last'.net = << >>
             /\ UNCHANGED <<memory, files>>]_vars

\* C5 witness: a refresh has failed without a request on a record that is
\* present and unexpired but holds no refresh token
C5_Witness ==
    /\ IsRefresh(last) /\ last.ret = "false" /\ last.net = << >>
    /\ IsValidAt(refresh_token_data, now)
    /\ refresh_token_data.token = "none"

\* C6: a setup_with_invite_code that returns False has written neither
\* stored record and has not deleted the invite record
C6_FailedSetupWritesNothing ==
    [][(IsSetup(last') /\ last'.ret = "false") => UNCHANGED <<files, memory>>]_vars

\* C7: an operation that reports failure leaves the three in-memory records
\* as they were
C7_FailureKeepsMemory ==
    [][(/\ IsSetup(last') \/ IsRefresh(last') \/ IsGet(last') \/ IsValidate(last')
        /\ last'.ret \in {"false", "None"})
          => UNCHANGED memory]_vars

\* C8: no operation raises: each of the four returns a boolean or an
\* optional token, whatever the remote and the storage do
C8_NothingRaises ==
    (IsSetup(last) \/ IsRefresh(last) \/ IsGet(last) \/ IsValidate(last))
        => last.ret # "raised"

\* C9: after a successful setup the in-memory AccessRecord and RefreshRecord
\* are the ones just written, and after a successful refresh the in-memory
\* AccessRecord is the one just written
C9_MemoryFollowsNewRecords ==
    [][/\ (IsSetup(last') /\ last'.ret = "true" /\ last'.saves = <<"ok", "ok">>)
             => /\ auth_token_data' = file_auth'.data
                /\ refresh_token_data' = file_refresh'.data
       /\ (IsRefresh(last') /\ last'.ret = "true" /\ last'.saves = <<"ok">>)
             => auth_token_data' = file_auth'.data]_vars

\* C10: right after a successful setup the invite record is gone from
\* storage and check_token_status does not report both the invite code and
\* the refresh token as existing
C10_InviteAndRefreshExclusive ==
    (IsSetup(last) /\ last.ret = "true")
        => /\ file_invite = NoFile
           /\ LET status == check_token_status(auth_token_data, refresh_token_data,
                                               invite_code_data, now)
              IN ~(status.invite_code.exists /\ status.refresh_token.exists)

\* the truth value of a reported field: the empty dict that `d and x` yields
\* for an absent record is falsy
Holds(v) == v = "true"

RecordKinds == {"auth_token", "refresh_token", "invite_code"}

Records == {auth_token_data, refresh_token_data, invite_code_data}

\* C12 (as stated): for every record and every current time,
\* _has_not_expired is false if the expiration is absent, unparseable or in
\* the past, and true otherwise, the instant now = expiration included
C12_Original ==
    \A d \in Records :
        has_not_expired(d, now)
            = (d.expiration.kind = "iso" /\ ~(d.expiration.at < now))

\* C12 (amended): for every record and every current time,
\* _has_not_expired is true exactly when the expiration is present, parses
\* and is strictly later than now; at the instant now = expiration the
\* record has already expired
C12_ValidIffStrictlyBeforeExpiration ==
    \A d \in Records :
        /\ has_not_expired(d, now)
              = (d.expiration.kind = "iso" /\ now < d.expiration.at)
        /\ (d.expiration.kind = "iso" /\ d.expiration.at = now)
              => ~has_not_expired(d, now)

\* C12 witness: check_token_status has been called at the instant the
\* AccessRecord expires, while another record has no usable expiration
C12_Witness ==
    /\ last.op = "check_token_status"
    /\ \E d \in Records :
          /\ d.expiration.kind = "iso" /\ d.expiration.at = now
          /\ ~has_not_expired(d, now)
    /\ \E d \in Records : d.present /\ d.expiration.kind # "iso"

\* the lifetime in seconds that a response grants: its expiresIn, or 86400
\* when it carries none
GrantedSeconds(resp) ==
    IF resp.expiresIn.kind = "absent" THEN DEFAULT_EXPIRES_IN ELSE resp.expiresIn.n

\* the records a setup at the current instant derives from its inputs
ExpectedAccess(i) ==
    Dict(i.resp.token, now, Iso(now + GrantedSeconds(i.resp)))
ExpectedRefresh(i) ==
    Dict(i.resp.refreshToken, now, Iso(now + i.expiration_days * SECONDS_PER_DAY))

\* what setup_with_invite_code does when called now with inputs i
SetupResult(i) ==
    setup_with_invite_code(i.invite_code, i.expiration_days, file_auth,
                           file_refresh, file_invite, now, i.resp,
                           i.sv1, i.sv2, i.rm)

Accepts(resp) ==
    /\ resp.kind = "object" /\ resp.token # "none" /\ resp.refreshToken # "none"
    /\ resp.expiresIn.kind # "nan"

\* the calls of setup_with_invite_code with an invite code that the remote
\* accepts
AcceptedSetups == {i \in SetupInputs : i.invite_code # "" /\ Accepts(i.resp)}

RefreshedButNotValidated(l) ==
    /\ IsGet(l) \/ IsRefresh(l)
    /\ l.net = <<TOKEN_URL, DETAILS_URL>>
    /\ l.token \in NewAccessTokens
    /\ l.valid # "true"

SetupRemoteSucceeded(l) == IsSetup(l) /\ Len(l.saves) = 2

\* C16: in a setup whose remote call succeeded the two records are written
\* independently (each write that succeeds stores its record, each write
\* that fails leaves its file alone, whatever the other write did), the
\* invite record is deleted, and the call returns True even if one or both
\* writes failed
C16_IndependentWritesStillSucceed ==
    [][SetupRemoteSucceeded(last')
          => /\ last'.saves[1] = "ok" =>
                   (file_auth'.data.token = last'.token
                       /\ file_auth'.data.created = now)
             /\ last'.saves[1] = "fail" => file_auth' = file_auth
             /\ last'.saves[2] = "ok" =>
                   (file_refresh'.data.token \in NewRefreshTokens
                       /\ file_refresh'.data.created = now)
             /\ last'.saves[2] = "fail" => file_refresh' = file_refresh
             /\ file_invite' = NoFile
             /\ last'.ret = "true"]_vars

\* C18: refresh_auth_token and get_valid_token never change the
\* RefreshRecord or the InviteRecord, in memory or in storage, whatever the
\* remote answers; the only record either can change is the AccessRecord
C18_RefreshAndGetOnlyTouchAccessRecord ==
    [][(IsRefresh(last') \/ IsGet(last'))
          => UNCHANGED <<refresh_token_data, invite_code_data,
                         file_refresh, file_invite>>]_vars

\* C18 witness: a refresh that the remote rejected with 401 has left a
\* present RefreshRecord and a present InviteRecord in memory and in storage
C18_Witness ==
    /\ IsRefresh(last) /\ last.net = <<TOKEN_URL>> /\ last.ret = "false"
    /\ refresh_token_data.present /\ file_refresh = FileOf(refresh_token_data)
    /\ invite_code_data.present /\ file_invite = FileOf(invite_code_data)

\* C19: every token that get_valid_token returns is the access token of the
\* in-memory AccessRecord, and that record is valid (now < expiration) when
\* the call returns, on the cached path and on the refresh path, whatever
\* expiresIn the remote sent
C19_ReturnedTokenIsValidNow ==
    (IsGet(last) /\ last.ret # "None")
        => /\ last.ret = auth_token_data.token
           /\ IsValidAt(auth_token_data, now)

\* the instants the clock can read from now on
LaterTimes == {now + k * SECONDS_PER_DAY : k \in 0..MaxDays}

\* what get_valid_token does when called at instant t with inputs i on the
\* records as they are
GetResultAt(t, i) ==
    get_valid_token(refresh_token_data, auth_token_data, file_auth, t,
                    i.resp, i.sv, i.det)

\* C20: after a get_valid_token call that returned None because the
\* refreshed token failed validation, the next get_valid_token call, made
\* at any instant before that token's expiration and whatever the remote
\* would answer, returns that very token, sends no request, validates
\* nothing and changes nothing
C20_NextCallReturnsUnvalidatedToken ==
    (IsGet(last) /\ RefreshedButNotValidated(last))
        => /\ last.ret = "None"
           /\ auth_token_data.token = last.token
           /\ \A t \in LaterTimes, i \in RefreshInputs :
                 t < auth_token_data.expiration.at
                     => GetResultAt(t, i)
                           = [out |-> Outcome(last.token, << >>, "none", "na", << >>),
                              auth_token_data |-> auth_token_data,
                              file_auth |-> file_auth]

\* C20 witness: a get_valid_token call has returned None after a failed
\* validation, the token it obtained has not expired yet, and a call made
\* now that the remote would refuse returns that token without a request
C20_Witness ==
    /\ IsGet(last) /\ RefreshedButNotValidated(last) /\ last.ret = "None"
    /\ now < auth_token_data.expiration.at
    /\ \E i \in RefreshInputs :
          /\ i.resp.kind = "http401"
          /\ GetResultAt(now, i).out.ret = last.token
          /\ GetResultAt(now, i).out.net = << >>

\* C17: nothing makes one thread wait for the other during the
\* read-check-refresh-write sequence: wherever the other thread is, a thread
\* whose call has not returned can take its next step, so that both can be
\* between the test of line 181 and the writes of lines 157-158 at once
C17_NoMutualExclusion ==
    \A th \in Threads : threads[th].pc # "done" => ENABLED ThreadStep(th)

\* C17 witness: with a valid RefreshRecord, both threads have sent a refresh
\* request, each has written the record it obtained to storage and to
\* memory, and each has returned a token; both records obtained are valid,
\* so the thread that wrote second had passed the test of line 181 before
\* the first one wrote
C17_Witness ==
    /\ IsValidAt(refresh_token_data, now)
    /\ \A th \in Threads :
          /\ threads[th].pc = "done"
          /\ threads[th].out.net = <<TOKEN_URL, DETAILS_URL>>
          /\ threads[th].out.saves = <<"ok">>
          /\ threads[th].out.ret \in NewAccessTokens
          /\ IsValidAt(threads[th].auth_data, now)
    /\ \E th \in Threads : auth_token_data = threads[th].auth_data
    /\ \E th \in Threads : file_auth = FileOf(threads[th].auth_data)

====
